---------------------------- MODULE Spec2Model ----------------------------
(***************************************************************************)
(* pontos-update-header: the batch loop of main, the per-file routine      *)
(* _update_file, the header pattern, the template insertion and the        *)
(* exclusion list of pontos/updateheader/updateheader.py.                  *)
(*                                                                         *)
(* Text is modelled character by character: a string is a sequence of      *)
(* one-character strings, a file's content is the sequence of its          *)
(* characters, one per byte, which a text-mode handle reads with "\r\n" as *)
(* "\n", and offsets (tell/seek) count the characters of the file.         *)
(***************************************************************************)
EXTENDS Integers, Sequences, FiniteSets, TLC

(***************************************************************************)
(* Strings                                                                 *)
(***************************************************************************)
NL == "\n"
CR == "\r"
SP == " "
None == << >>

DigitSeq == <<"0", "1", "2", "3", "4", "5", "6", "7", "8", "9">>
Digits == {DigitSeq[k] : k \in DOMAIN DigitSeq}

\* ord() of a digit character: the order Python's str comparison uses.
Ord(ch) == CHOOSE k \in DOMAIN DigitSeq : DigitSeq[k] = ch

RECURSIVE StrLess(_, _)
\* a < b on Python strings: lexicographic, a proper prefix is smaller.
StrLess(a, b) ==
    IF b = << >> THEN FALSE
    ELSE IF a = << >> THEN TRUE
    ELSE IF a[1] = b[1] THEN StrLess(Tail(a), Tail(b))
    ELSE Ord(a[1]) < Ord(b[1])

\* s[from:] of Python, with positions counted from 1.
From(s, from) == SubSeq(s, from, Len(s))

\* whether the word w stands in s at position j
HasAt(s, j, w) ==
    /\ j >= 1
    /\ j + Len(w) - 1 <= Len(s)
    /\ \A k \in 1..Len(w) : s[j + k - 1] = w[k]

RECURSIVE Replace(_, _, _)
\* str.replace(old, new): every non-overlapping occurrence, left to right.
Replace(s, old, new) ==
    IF s = << >> THEN << >>
    ELSE IF HasAt(s, 1, old) THEN new \o Replace(From(s, Len(old) + 1), old, new)
    ELSE <<s[1]>> \o Replace(Tail(s), old, new)

(***************************************************************************)
(* The header pattern of main:                                             *)
(*   [Cc]opyright.*?(19[0-9]{2}|20[0-9]{2}) ?-? ?(19[0-9]{2}|20[0-9]{2})?  *)
(*   (<company>)                                                           *)
(***************************************************************************)
COPYRIGHT_UC == <<"C", "o", "p", "y", "r", "i", "g", "h", "t">>
COPYRIGHT_LC == <<"c", "o", "p", "y", "r", "i", "g", "h", "t">>

\* [Cc]opyright at position i
IsCopyrightAt(s, i) == HasAt(s, i, COPYRIGHT_UC) \/ HasAt(s, i, COPYRIGHT_LC)

\* (19[0-9]{2}|20[0-9]{2}) at position j
IsYearAt(s, j) ==
    /\ j >= 1
    /\ j + 3 <= Len(s)
    /\ \/ s[j] = "1" /\ s[j + 1] = "9"
       \/ s[j] = "2" /\ s[j + 1] = "0"
    /\ s[j + 2] \in Digits
    /\ s[j + 3] \in Digits

\* The sixteen ways to take the four optional items " ?", "-?", " ?" and
\* "(year)?", in the order a greedy backtracking matcher tries them: an
\* item is taken before it is skipped. Option n takes item b iff bit b is 1.
OptionBit(n, b) == ((15 - n) \div (2 ^ (4 - b))) % 2

\* The part of the pattern after the first year, tried at position k with
\* option n: [ok, modification_year, stop], stop the position after the match.
TailWith(s, k, company, n) ==
    LET sp1 == OptionBit(n, 1)
        dash == OptionBit(n, 2)
        sp2 == OptionBit(n, 3)
        yr2 == OptionBit(n, 4)
        p1 == k + sp1
        p2 == p1 + dash
        p3 == p2 + sp2
        p4 == p3 + 4 * yr2
        ok == /\ (sp1 = 1 => HasAt(s, k, <<SP>>))
              /\ (dash = 1 => HasAt(s, p1, <<"-">>))
              /\ (sp2 = 1 => HasAt(s, p2, <<SP>>))
              /\ (yr2 = 1 => IsYearAt(s, p3))
              /\ HasAt(s, p4, <<SP>>)
              /\ HasAt(s, p4 + 1, company)
    IN  IF ok
        THEN [ok |-> TRUE,
              modification_year |-> IF yr2 = 1 THEN SubSeq(s, p3, p3 + 3) ELSE None,
              stop |-> p4 + 1 + Len(company)]
        ELSE [ok |-> FALSE]

\* the least element of a set of numbers
Min(S) == CHOOSE x \in S : \A y \in S : x <= y

\* the first option that matches (16: none does). (Here and below the set
\* is bound as the element of a one-element set so that it is computed
\* once.)
TailOption(s, k, company) ==
    CHOOSE o \in {IF S = {} THEN 16 ELSE Min(S) :
                     S \in {{n \in 0..15 : TailWith(s, k, company, n).ok}}} : TRUE

\* whether ".*?" may end at j and the first year begin there, for a match
\* that starts at i: "." does not match a newline
IsYearStart(s, i, j, company) ==
    /\ IsYearAt(s, j)
    /\ \A k \in (i + 9)..(j - 1) : s[k] # NL
    /\ TailOption(s, j + 4, company) < 16

\* the first such position for a match that starts at i, 0 when there is
\* none: the lazy ".*?" is as short as can be
YearStart(s, i, company) ==
    CHOOSE y \in {IF S = {} THEN 0 ELSE Min(S) :
                     S \in {{j \in (i + 9)..Len(s) : IsYearStart(s, i, j, company)}}} : TRUE

\* whether a match starts at i
IsMatchStart(s, i, company) ==
    IsCopyrightAt(s, i) /\ YearStart(s, i, company) # 0

\* the leftmost position at which a match starts, 0 when there is none
MatchStart(s, company) ==
    CHOOSE m \in {IF S = {} THEN 0 ELSE Min(S) :
                     S \in {{i \in 1..Len(s) : IsMatchStart(s, i, company)}}} : TRUE

\* the match that starts at i with its first year at j and its tail t
MatchAt(s, company, i, j, t) ==
    [found |-> TRUE,
     start |-> i,
     stop |-> t.stop,
     creation_year |-> SubSeq(s, j, j + 3),
     modification_year |-> t.modification_year,
     company |-> company]

\* re.search(regex, s): the leftmost match. (Each of its parts is bound as
\* the element of a one-element set so that it is computed once.)
Search(s, company) ==
    CHOOSE m \in
        {IF i = 0 THEN [found |-> FALSE]
         ELSE CHOOSE r \in
                  {MatchAt(s, company, i, j, t) :
                      <<j, t>> \in
                          {<<y, TailWith(s, y + 4, company,
                                         TailOption(s, y + 4, company))>> :
                              y \in {YearStart(s, i, company)}}} : TRUE :
            i \in {MatchStart(s, company)}} : TRUE

\* _find_copyright(line, regex): (found, the three groups of the match)
find_copyright(line, company) == Search(line, company)

RECURSIVE Sub(_, _, _)
\* re.sub(regex, term, s): every non-overlapping match replaced by term
Sub(s, company, term) ==
    LET m == Search(s, company)
    IN  IF ~m.found THEN s
        ELSE SubSeq(s, 1, m.start - 1) \o term \o Sub(From(s, m.stop), company, term)

(***************************************************************************)
(* Files. A file is [kind, content]:                                       *)
(*   "text"      decodable throughout; content is its text                 *)
(*   "text_tail" its text begins with content, and bytes that do not       *)
(*               decode follow further on, beyond what the line scan       *)
(*               buffers: readline succeeds, read() to the end raises      *)
(*               UnicodeDecodeError                                        *)
(*   "binary"    the first readline raises UnicodeDecodeError              *)
(*   "missing"   open raises FileNotFoundError                             *)
(*   "denied"    open raises another OSError (PermissionError,             *)
(*               IsADirectoryError)                                        *)
(***************************************************************************)
TextFile(content) == [kind |-> "text", content |-> content]
TailFile(content) == [kind |-> "text_tail", content |-> content]
BinaryFile == [kind |-> "binary", content |-> << >>]
MissingFile == [kind |-> "missing", content |-> << >>]
DeniedFile == [kind |-> "denied", content |-> << >>]

RECURSIVE Translate(_)
\* s with each "\r\n" and each other "\r" made "\n"
Translate(s) ==
    IF s = << >> THEN s
    ELSE IF s[1] = CR
    THEN <<NL>> \o Translate(IF Len(s) > 1 /\ s[2] = NL THEN From(s, 3) ELSE Tail(s))
    ELSE <<s[1]>> \o Translate(Tail(s))

\* What a handle opened in text mode with newline=None gives for the
\* characters s of the file: "\r\n" and "\r" read as "\n". (Written, "\n"
\* stays "\n" where os.linesep is "\n".)
universal_newlines(s) ==
    IF \A k \in DOMAIN s : s[k] # CR THEN s ELSE Translate(s)

\* fp.readline() at offset pos: [line, tell], the line up to and with the
\* next line end, read as "\n", "" at the end of the file; tell is the
\* offset in the file after it, which is what fp.tell() answers when the
\* line ends in "\n" or "\r\n"
readline(content, pos) ==
    IF pos >= Len(content) THEN [line |-> << >>, tell |-> pos]
    ELSE LET stop == CHOOSE stop \in (pos + 1)..Len(content) :
                         /\ content[stop] \in {NL, CR} \/ stop = Len(content)
                         /\ \A k \in (pos + 1)..(stop - 1) : content[k] \notin {NL, CR}
         IN  IF content[stop] = CR
             THEN [line |-> SubSeq(content, pos + 1, stop - 1) \o <<NL>>,
                   tell |-> IF stop < Len(content) /\ content[stop + 1] = NL
                            THEN stop + 1 ELSE stop]
             ELSE [line |-> SubSeq(content, pos + 1, stop), tell |-> stop]

\* fp.seek(pos); fp.write(data): data overwrites what stood at pos, the
\* file grows when data runs past its end and is never cut
WriteAt(content, pos, data) ==
    SubSeq(content, 1, pos) \o data \o From(content, pos + Len(data) + 1)

\* a scan of one line less
ScanLinesShort == 10 - 1

\* i = 10: the header is looked for in this many lines
ScanLines == 10

RECURSIVE ScanLoop(_, _, _)
\* The while loop of _update_file. st is [found, i, line, copyright_match,
\* tell, nread]: the loop's variables, the handle's offset and the number
\* of lines read so far. (The next turn's st is bound as an element of a
\* one-element set so that it is computed once.)
ScanLoop(content, company, st) ==
    IF ~(~st.found /\ st.i > 0) THEN st
    ELSE LET turn(r, m) ==
                 IF r.line = << >>
                 THEN [st EXCEPT !.i = 0, !.line = r.line]
                 ELSE [found |-> m.found,
                       i |-> st.i - 1,
                       line |-> r.line,
                       copyright_match |-> m,
                       tell |-> r.tell,
                       nread |-> st.nread + 1]
         IN  CHOOSE end \in
                 {ScanLoop(content, company, turn(rm[1], rm[2])) :
                     rm \in
                         {<<r, find_copyright(r.line, company)>> :
                             r \in {readline(content, st.tell)}}} : TRUE

Scan(content, company) ==
    ScanLoop(content, company,
             [found |-> FALSE, i |-> ScanLines, line |-> << >>,
              copyright_match |-> [found |-> FALSE], tell |-> 0, nread |-> 0])

(***************************************************************************)
(* Paths: a path is the sequence of its components, a component a string.  *)
(***************************************************************************)
\* str.rfind("."): the last position of a dot in name, 0 when there is none
LastDot(name) ==
    IF \E k \in 1..Len(name) : name[k] = "."
    THEN CHOOSE k \in 1..Len(name) :
             name[k] = "." /\ \A l \in (k + 1)..Len(name) : name[l] # "."
    ELSE 0

\* Path.suffix: the last component from its last dot on, "" when the dot is
\* its first or its last character
suffix(path) ==
    LET name == path[Len(path)]
        d == LastDot(name)
    IN  IF d > 1 /\ d < Len(name) THEN From(name, d) ELSE << >>

SUPPORTED_FILE_TYPES ==
    {<<".", "b", "a", "s", "h">>, <<".", "c">>, <<".", "h">>, <<".", "g", "o">>, <<".", "c", "m", "a", "k", "e">>, <<".", "j", "s">>, <<".", "n", "a", "s", "l">>,
     <<".", "p", "o">>, <<".", "p", "y">>, <<".", "s", "h">>, <<".", "t", "x", "t">>, <<".", "x", "m", "l">>, <<".", "x", "s", "l">>}

SUPPORTED_LICENCES ==
    {"AGPL-3.0-or-later", "GPL-2.0-only", "GPL-2.0-or-later", "GPL-3.0-or-later"}

(***************************************************************************)
(* Templates: templates/<licence>/template<suffix>, files shipped with the *)
(* package. Their text holds the placeholders <year> and <company>.        *)
(***************************************************************************)
YEAR_PLACEHOLDER == <<"<", "y", "e", "a", "r", ">">>
COMPANY_PLACEHOLDER == <<"<", "c", "o", "m", "p", "a", "n", "y", ">">>

TemplateHead == <<"#", " ", "C", "o", "p", "y", "r", "i", "g", "h", "t", " ", "(", "C", ")", " ">>

\* the licence's notice, one line
TemplateTail(licence) ==
    <<NL>> \o <<"#", " ">> \o (IF licence = "AGPL-3.0-or-later" THEN <<"A", "G", "P", "L">> ELSE <<"G", "P", "L">>) \o <<NL>>

\* the text of templates/<licence>/template<suffix>
TemplateText(licence, sfx) ==
    TemplateHead \o YEAR_PLACEHOLDER \o <<SP>> \o COMPANY_PLACEHOLDER \o TemplateTail(licence)

\* every template the package can ship
AllTemplates == SUPPORTED_LICENCES \X SUPPORTED_FILE_TYPES

\* _add_header without the test of the suffix
add_header_any_suffix(sfx, licence, company, year, tpl) ==
    IF <<licence, sfx>> \in tpl
    THEN [raised |-> "none",
          header |-> Replace(Replace(TemplateText(licence, sfx),
                                     COMPANY_PLACEHOLDER, company),
                             YEAR_PLACEHOLDER, year)]
    ELSE [raised |-> "FileNotFoundError", header |-> None]

\* _add_header(suffix, licence, company, year): [raised, header]
add_header(sfx, licence, company, year, tpl) ==
    IF sfx \in SUPPORTED_FILE_TYPES
    THEN IF <<licence, sfx>> \in tpl
         THEN [raised |-> "none",
               header |-> Replace(Replace(TemplateText(licence, sfx),
                                          COMPANY_PLACEHOLDER, company),
                                  YEAR_PLACEHOLDER, year)]
         ELSE [raised |-> "FileNotFoundError", header |-> None]
    ELSE [raised |-> "ValueError", header |-> None]

\* the condition with <= for <
IsStaleOrEqual(m, year) ==
    \/ m.modification_year = None /\ ~StrLess(year, m.creation_year)
    \/ m.modification_year # None /\ ~StrLess(year, m.modification_year)

\* the condition of the "replace header" branch of _update_file; a group
\* that did not take part in the match is None, which is false
IsStale(m, year) ==
    \/ m.modification_year = None /\ StrLess(m.creation_year, year)
    \/ m.modification_year # None /\ StrLess(m.modification_year, year)

\* f'Copyright (C) {creation_year}-{args.year} {company}'
copyright_term(m, year) ==
    <<"C", "o", "p", "y", "r", "i", "g", "h", "t", " ", "(", "C", ")", " ">> \o m.creation_year \o <<"-">> \o year \o <<SP>> \o m.company

\* the branch with the header written before the rest of the file is read
InsertHeaderWriteFirst(f, sfx, year, licence, company, tpl, st) ==
    LET h == add_header(sfx, licence, company, year, tpl)
        end(outcome, raised, ret, after) ==
            [outcome |-> outcome, raised |-> raised, ret |-> ret,
             after |-> after, nread |-> st.nread, found |-> FALSE]
    IN  IF h.raised = "ValueError"
        THEN end("unsupported-extension", "none", 1, f)
        ELSE IF h.raised = "FileNotFoundError"
        THEN end("missing-licence", "none", 1, f)
        ELSE IF h.header = << >>
        THEN end("no-header", "none", 1, f)
        ELSE IF f.kind = "text_tail"
        THEN end("binary", "UnicodeDecodeError", -1,
                 [f EXCEPT !.content = WriteAt(f.content, 0, h.header \o <<NL>>)])
        ELSE LET rest_of_file == universal_newlines(f.content)
             IN  end("header-inserted", "none", 0,
                     [f EXCEPT !.content =
                         WriteAt(f.content, 0, h.header \o <<NL>> \o rest_of_file)])

\* The branch of _update_file taken when no header was found.
InsertHeader(f, sfx, year, licence, company, tpl, st) ==
    LET h == add_header(sfx, licence, company, year, tpl)
        end(outcome, raised, ret, after) ==
            [outcome |-> outcome, raised |-> raised, ret |-> ret,
             after |-> after, nread |-> st.nread, found |-> FALSE]
    IN  IF h.raised = "ValueError"
        THEN end("unsupported-extension", "none", 1, f)
        ELSE IF h.raised = "FileNotFoundError"
        THEN end("missing-licence", "none", 1, f)
        ELSE IF h.header = << >>
        THEN end("no-header", "none", 1, f)
        ELSE IF f.kind = "text_tail"
        THEN end("binary", "UnicodeDecodeError", -1, f)
        ELSE LET rest_of_file == universal_newlines(f.content)
             IN  end("header-inserted", "none", 0,
                     [f EXCEPT !.content =
                         WriteAt(f.content, 0, h.header \o <<NL>> \o rest_of_file)])

\* The branch of _update_file taken when a header was found.
ReplaceHeader(f, year, company, st) ==
    LET m == st.copyright_match
        end(outcome, raised, ret, after) ==
            [outcome |-> outcome, raised |-> raised, ret |-> ret,
             after |-> after, nread |-> st.nread, found |-> TRUE]
    IN  IF IsStale(m, year)
        THEN LET new_line == Sub(st.line, company, copyright_term(m, year))
                 fp_write == st.tell - Len(st.line)
                 rest_of_file == universal_newlines(From(f.content, st.tell + 1))
             IN  IF f.kind = "text_tail"
                 THEN end("binary", "UnicodeDecodeError", -1, f)
                 ELSE end("year-updated", "none", 0,
                          [f EXCEPT !.content =
                              WriteAt(f.content, fp_write, new_line \o rest_of_file)])
        ELSE end("already-current", "none", 0, f)

\* _update_file(file, regex, args) once args.year is set: what it does to
\* the file f and how it ends. raised is the exception that leaves it, ret
\* the value it returns (-1: it raised, and returned nothing).
update_file(f, sfx, year, licence, company, tpl) ==
    LET fail(outcome, raised) ==
            [outcome |-> outcome, raised |-> raised, ret |-> -1,
             after |-> f, nread |-> 0, found |-> FALSE]
    IN  IF f.kind = "missing" THEN fail("not-found", "FileNotFoundError")
        ELSE IF f.kind = "denied" THEN fail("io-error", "OSError")
        ELSE IF f.kind = "binary" THEN fail("binary", "UnicodeDecodeError")
        ELSE LET st == Scan(f.content, company)
             IN  IF st.i = 0 /\ ~st.found
                 THEN InsertHeader(f, sfx, year, licence, company, tpl, st)
                 ELSE ReplaceHeader(f, year, company, st)

(***************************************************************************)
(* The file tree the program runs in.                                      *)
(***************************************************************************)
Cwd == <<<<"w">>>>
DirT == <<<<"t">>>>
DirS == <<<<"t">>, <<"s">>>>
FileA == <<<<"t">>, <<"a", ".", "p", "y">>>>
FileB == <<<<"t">>, <<"s">>, <<"b", ".", "p", "y">>>>
FileD == <<<<"t">>, <<"s">>, <<"d", ".", "m", "d">>>>

DirPaths == {DirT, DirS}
FilePaths == {FileA, FileB, FileD}

\* Path.absolute(): the working directory put before a relative path
absolute(path) == Cwd \o path

\* whether path lies in directory dir, at any depth
IsUnder(path, dir) ==
    Len(path) > Len(dir) /\ SubSeq(path, 1, Len(dir)) = dir

RECURSIVE fnmatch(_, _)
\* whether a component matches a pattern component: "*" is any run of
\* characters, "?" any one character
fnmatch(name, pat) ==
    IF pat = << >> THEN name = << >>
    ELSE IF pat[1] = "*"
    THEN fnmatch(name, Tail(pat)) \/ (name # << >> /\ fnmatch(Tail(name), pat))
    ELSE /\ name # << >>
         /\ pat[1] = "?" \/ pat[1] = name[1]
         /\ fnmatch(Tail(name), Tail(pat))

RECURSIVE strip(_)
\* str.strip() for blanks
strip(s) ==
    IF s = << >> THEN s
    ELSE IF s[1] = SP THEN strip(Tail(s))
    ELSE IF s[Len(s)] = SP THEN strip(SubSeq(s, 1, Len(s) - 1))
    ELSE s

\* Path.is_file()
is_file(files, path) == path \in FilePaths /\ files[path].kind # "missing"

\* what exists on disk
Existing(files) == DirPaths \cup {p \in FilePaths : is_file(files, p)}

\* directory.rglob(pattern), pattern one component: what exists in the
\* directory, at any depth, with a last component the pattern matches
rglob(files, dir, pattern) ==
    {p \in Existing(files) : IsUnder(p, dir) /\ fnmatch(p[Len(p)], pattern)}

\* _get_exclude_list(exclude_file, directories) for the default exclusion
\* file .pontos-header-ignore: ignore is [exists, lines], the lines what
\* read_text().split('\n') gives
get_exclude_list(files, ignore, directories) ==
    IF ~ignore.exists THEN {}
    ELSE LET exclude_lines == ignore.lines
             expanded_globs ==
                 UNION {rglob(files, directories[d], strip(exclude_lines[l])) :
                            d \in DOMAIN directories,
                            l \in {k \in DOMAIN exclude_lines : exclude_lines[k] # << >>}}
         IN  UNION {IF path \in DirPaths
                    THEN {absolute(efile) : efile \in rglob(files, path, <<"*">>)}
                    ELSE {absolute(path)} : path \in expanded_globs}

\* the sequences that list each element of S once
Orderings(S) ==
    {o \in [1..Cardinality(S) -> S] : \A i, j \in DOMAIN o : i # j => o[i] # o[j]}

RECURSIVE Enumerations(_, _)
\* [file for directory in directories for file in directory.rglob("*")
\*  if file.is_file()]: rglob lists a directory in no promised order
Enumerations(files, directories) ==
    IF directories = << >> THEN {<< >>}
    ELSE {o \o rest :
             o \in Orderings({p \in rglob(files, Head(directories), <<"*">>) :
                                is_file(files, p)}),
             rest \in Enumerations(files, Tail(directories))}

(***************************************************************************)
(* The run of main.                                                        *)
(*   cmdline       what _parse_args returns, as given on the command line  *)
(*   year          args.year, which _update_file assigns in changed mode   *)
(*   fs            the files on disk, by path                              *)
(*   templates     the template files on disk: <<licence, suffix>> pairs   *)
(*   ignore_file   .pontos-header-ignore: whether it exists, and its lines *)
(*   files         the list main iterates over                             *)
(*   exclude_list  the absolute paths _get_exclude_list returned           *)
(*   idx           the position of the for loop in files                   *)
(*   pc            "start", "loop", "done" (main returned) or "crashed"    *)
(*                 (an exception left main)                                *)
(*   ret           main's return value, or the exit status of a crash; -1  *)
(*                 while main runs                                         *)
(*   calls         one record per call of _update_file, in order           *)
(*   ignored       the files reported as excluded, in order                *)
(* The other two tools of the repository each keep their state in one      *)
(* record, and each runs under a specification of its own:                 *)
(*   version_cmd   the version tool: its files, the PythonVersionCommand   *)
(*                 object and the calls made on it                         *)
(*   pull_request  the pull-request helper: the remote repository, the     *)
(*                 arguments and the progress of create_pull_request       *)
(* A tool that does not run has None for its record.                       *)
(***************************************************************************)
VARIABLES cmdline, year, fs, templates, ignore_file, files, exclude_list,
          idx, pc, ret, calls, ignored, version_cmd, pull_request

\* the state of the header tool
header_vars == <<cmdline, year, fs, templates, ignore_file, files, exclude_list,
                 idx, pc, ret, calls, ignored>>

vars == <<header_vars, version_cmd, pull_request>>

\* the longest list of files given on the command line
MaxFiles == 3

Company == <<"X", "y">>
Y1999 == <<"1", "9", "9", "9">>
Y2020 == <<"2", "0", "2", "0">>
Y2021 == <<"2", "0", "2", "1">>
HeaderYears == {Y1999, Y2020, Y2021}
Y2100 == <<"2", "1", "0", "0">>
\* values of --year: two that the header pattern accepts, and one it does not
TargetYears == {Y2020, Y2021}
GivenYears == TargetYears \cup {Y2100}

\* what _get_modified_year meets: git log answers a year, or exits with an
\* error (CalledProcessError); in a run with a year given it is not called
GitResults == {[status |-> "failed", stdout |-> << >>], [status |-> "ok", stdout |-> Y2020]}
GitNotRun == [status |-> "not-run", stdout |-> << >>]

\* The copyright clauses written in headers, by form, with creation year c
\* and modification year m.
Clause(form, c, m) ==
    CASE form = "canonical" -> <<"C", "o", "p", "y", "r", "i", "g", "h", "t", " ", "(", "C", ")", " ">> \o c \o <<"-">> \o m \o <<SP>> \o Company
      [] form = "single" -> <<"C", "o", "p", "y", "r", "i", "g", "h", "t", " ", "(", "C", ")", " ">> \o c \o <<SP>> \o Company
      [] form = "spaced" -> <<"c", "o", "p", "y", "r", "i", "g", "h", "t", " ">> \o c \o <<" ", "-", " ">> \o m \o <<SP>> \o Company
      [] form = "worded" -> <<"C", "o", "p", "y", "r", "i", "g", "h", "t", " ", "(", "C", ")", " ", "b", "y", " ", "u", "s", " ">> \o c \o <<"-">> \o m \o <<SP>> \o Company
      [] form = "bare" -> <<"C", "o", "p", "y", "r", "i", "g", "h", "t", " ">> \o c \o <<"-">> \o m \o <<SP>> \o Company
      [] form = "other" -> <<"C", "o", "p", "y", "r", "i", "g", "h", "t", " ", "(", "C", ")", " ">> \o c \o <<"-">> \o m \o <<SP>> \o <<"Z", "z">>

\* a line that is no header
NoClause == <<"i", "m", "p", "o", "r", "t", " ", "o", "s">>

Clauses ==
    {Clause(form, c, m) : form \in {"canonical", "spaced", "worded", "bare"},
                          c \in HeaderYears, m \in HeaderYears}
    \cup {Clause("single", c, c) : c \in HeaderYears}
    \cup {Clause("other", Y1999, Y2020), NoClause}

RECURSIVE Lines(_, _)
\* n times the line
Lines(n, line) == IF n = 0 THEN << >> ELSE line \o Lines(n - 1, line)

\* how a header line ends and what follows it in the file
Endings ==
    {<<<<NL>>, << >>>>,
     <<<<NL>>, <<"x", " ", "=", " ", "1", "\n">>>>,
     <<<<" ", "*", "/", "\n">>, <<"p", "a", "s", "s", "\n", "m", "o", "r", "e">>>>,
     <<<< >>, << >>>>}

\* the text with the clause after n other lines, ended by e
Text(n, clause, e) ==
    Lines(n, <<"#", "\n">>) \o <<"#", " ">> \o clause \o e[1] \o e[2]

\* the text with lines that end in "\r\n"
CrlfText(n, clause) ==
    Lines(n, <<"#", CR, NL>>) \o <<"#", " ">> \o clause
    \o <<CR, NL, "x", " ", "=", " ", "1", CR, NL>>

CrlfTexts ==
    {CrlfText(n, clause) :
        n \in {0, 1},
        clause \in {Clause("bare", Y1999, Y1999), Clause("worded", Y1999, Y2020),
                    Clause("canonical", Y1999, Y2021), NoClause}}

\* the texts a header may stand in: after 0, 1, 9 or 10 other lines
Texts ==
    {Text(n, clause, e) :
        n \in {0, 1, ScanLines - 1, ScanLines}, clause \in Clauses, e \in Endings}
    \cup {<< >>} \cup CrlfTexts

\* the texts without a header, and two with one
FewTexts ==
    {Text(n, NoClause, e) : n \in {0, 1, ScanLines - 1, ScanLines}, e \in Endings}
    \cup {<< >>, Text(ScanLines, Clause("bare", Y1999, Y1999), <<<<NL>>, << >>>>),
          Text(0, Clause("spaced", Y2020, Y2020), <<<<NL>>, << >>>>)}
    \cup CrlfTexts

StaleText == <<"#", " ">> \o Clause("bare", Y1999, Y1999) \o <<"\n", "x", " ", "=", " ", "1", "\n">>
CurrentText == <<"#", " ">> \o Clause("canonical", Y1999, Y2021) \o <<"\n", "x", " ", "=", " ", "1", "\n">>
\* a stale header on line 10, and one on line 11
Line10Text == Text(ScanLines - 1, Clause("bare", Y1999, Y1999), <<<<NL>>, << >>>>)
Line11Text == Text(ScanLines, Clause("bare", Y1999, Y1999), <<<<NL>>, << >>>>)
PlainText == <<"x", " ", "=", " ", "1", "\n">>

\* .pontos-header-ignore, missing or with these lines
NoIgnoreFile == [exists |-> FALSE, lines |-> << >>]
IgnoreFile(lines) == [exists |-> TRUE, lines |-> lines]

Start(cl, f, tpl, ign) ==
    /\ cmdline = cl
    /\ year = cl.year
    /\ fs = f
    /\ templates = tpl
    /\ ignore_file = ign
    /\ files = << >>
    /\ exclude_list = {}
    /\ idx = 0
    /\ pc = "start"
    /\ ret = -1
    /\ calls = << >>
    /\ ignored = << >>

Args(y, changed, licence, fl, dirs, ex) ==
    [year |-> y, changed |-> changed, licence |-> licence, company |-> Company,
     files |-> fl, directories |-> dirs, exclude_file |-> ex]

\* One file of any text, named twice on the command line, a year given.
InitOneFile ==
    \E p \in {FileA, FileD}, y \in GivenYears :
    \E text \in IF p = FileA /\ y \in TargetYears THEN Texts ELSE FewTexts :
        Start(Args(y, FALSE, "GPL-3.0-or-later", <<p, p>>, << >>, FALSE),
              [q \in FilePaths |-> IF q = p THEN TextFile(text) ELSE TextFile(PlainText)],
              AllTemplates, NoIgnoreFile)

\* A list of files, some of which cannot be processed: with a year given,
\* or in changed mode (then the year is the default, the current year).
InitBatch ==
    \E changed \in BOOLEAN :
    \E a \in IF changed
              THEN {TextFile(StaleText), MissingFile}
              ELSE {TextFile(StaleText), TailFile(StaleText), TailFile(PlainText),
                    BinaryFile, MissingFile, DeniedFile},
       fl \in UNION {[1..n -> FilePaths] : n \in 1..MaxFiles},
       tpl \in IF changed
                THEN {AllTemplates}
                ELSE {AllTemplates, AllTemplates \ {<<"GPL-3.0-or-later", suffix(FileB)>>}} :
        Start(Args(Y2021, changed, "GPL-3.0-or-later", fl, << >>, FALSE),
              [q \in FilePaths |-> IF q = FileA THEN a ELSE TextFile(PlainText)],
              tpl, NoIgnoreFile)

\* the exclusion files tried
IgnoreFiles ==
    {NoIgnoreFile,
     IgnoreFile(<<<<"*", ".", "p", "y">>, << >>>>),
     IgnoreFile(<<<<"s", " ">>>>),
     IgnoreFile(<<<<"a", ".", "p", "y">>, <<"*", ".", "m", "d">>>>),
     IgnoreFile(<<<<"n", "o", "t", "h", "i", "n", "g">>>>)}

\* Directories to walk, with an exclusion file.
InitTree ==
    \E a \in {TextFile(StaleText), DeniedFile, MissingFile},
       dirs \in {<<DirT>>, <<DirS>>, <<DirT, DirS>>},
       ign \in IgnoreFiles,
       ex \in BOOLEAN,
       licence \in {"GPL-3.0-or-later", "AGPL-3.0-or-later"} :
        Start(Args(Y2021, FALSE, licence, << >>, dirs, ex),
              [q \in FilePaths |-> IF q = FileA THEN a
                                   ELSE IF q = FileB THEN TextFile(Line11Text)
                                   ELSE TextFile(Line10Text)],
              AllTemplates, ign)

Init ==
    /\ InitOneFile \/ InitBatch \/ InitTree
    /\ version_cmd = None
    /\ pull_request = None

\* main up to the for loop: the exclusion list and the list of files. With
\* --exclude-file, argparse's FileType('r') hands _get_exclude_list an open
\* file, which has no read_text: AttributeError leaves main.
MainSetup ==
    /\ pc = "start"
    /\ IF cmdline.directories # << >>
       THEN IF cmdline.exclude_file
            THEN /\ pc' = "crashed"
                 /\ ret' = 1
                 /\ UNCHANGED <<files, exclude_list, idx>>
            ELSE /\ exclude_list' = get_exclude_list(fs, ignore_file, cmdline.directories)
                 /\ files' \in Enumerations(fs, cmdline.directories)
                 /\ idx' = 1
                 /\ pc' = "loop"
                 /\ UNCHANGED ret
       ELSE /\ files' = cmdline.files
            /\ exclude_list' = {}
            /\ idx' = 1
            /\ pc' = "loop"
            /\ UNCHANGED ret
    /\ UNCHANGED <<cmdline, year, fs, templates, ignore_file, calls, ignored>>
    /\ UNCHANGED <<version_cmd, pull_request>>

\* One turn of the for loop on a file of the exclusion list.
IgnoreExcluded ==
    /\ pc = "loop"
    /\ idx <= Len(files)
    /\ absolute(files[idx]) \in exclude_list
    /\ ignored' = Append(ignored, files[idx])
    /\ idx' = idx + 1
    /\ UNCHANGED <<cmdline, year, fs, templates, ignore_file, files, exclude_list,
                   pc, ret, calls, version_cmd, pull_request>>

\* args.year after the first lines of _update_file: in changed mode the
\* year git answered, and on CalledProcessError (a warning) what it was
get_year(changed, git, y) == IF changed /\ git.status = "ok" THEN git.stdout ELSE y

\* an except clause that lets FileNotFoundError through
CaughtNarrow == {"UnicodeDecodeError", "ValueError"}

\* except (FileNotFoundError, UnicodeDecodeError, ValueError): continue
Caught == {"FileNotFoundError", "UnicodeDecodeError", "ValueError"}

\* One turn of the for loop on any other file: _update_file, and main's
\* except clause; any other exception leaves main.
UpdateFile ==
    /\ pc = "loop"
    /\ idx <= Len(files)
    /\ absolute(files[idx]) \notin exclude_list
    /\ \E git \in IF cmdline.changed THEN GitResults ELSE {GitNotRun} :
        \E y \in {get_year(cmdline.changed, git, year)} :
        \E r \in {update_file(fs[files[idx]], suffix(files[idx]), y,
                              cmdline.licence, cmdline.company, templates)} :
            /\ year' = y
            /\ fs' = [fs EXCEPT ![files[idx]] = r.after]
            /\ calls' = Append(calls,
                               [file |-> files[idx], git |-> git, args_year |-> year,
                                year |-> y, before |-> fs[files[idx]], after |-> r.after,
                                outcome |-> r.outcome, raised |-> r.raised,
                                ret |-> r.ret, nread |-> r.nread, found |-> r.found])
            /\ IF r.raised = "none" \/ r.raised \in Caught
               THEN pc' = "loop" /\ UNCHANGED ret
               ELSE pc' = "crashed" /\ ret' = 1
    /\ idx' = idx + 1
    /\ UNCHANGED <<cmdline, templates, ignore_file, files, exclude_list, ignored,
                   version_cmd, pull_request>>

\* the for loop is through: return 0
MainReturn ==
    /\ pc = "loop"
    /\ idx > Len(files)
    /\ pc' = "done"
    /\ ret' = 0
    /\ UNCHANGED <<cmdline, year, fs, templates, ignore_file, files, exclude_list,
                   idx, calls, ignored, version_cmd, pull_request>>

Next == MainSetup \/ IgnoreExcluded \/ UpdateFile \/ MainReturn

Spec == Init /\ [][Next]_vars

(***************************************************************************)
(* What the claims speak of, stated apart from the code above.             *)
(***************************************************************************)
\* the positions at which the lines of a text start
LineStarts(content) ==
    {k \in 1..Len(content) : k = 1 \/ content[k - 1] = NL}

\* the line that starts at position s, with its newline
LineFrom(content, s) ==
    SubSeq(content, s,
           CHOOSE e \in s..Len(content) :
               /\ content[e] = NL \/ e = Len(content)
               /\ \A k \in s..(e - 1) : content[k] # NL)

\* the number of the line that starts at s, given all line starts
LineNumber(starts, s) == Cardinality({x \in starts : x <= s})

\* a year as a number
YearNum(y) ==
    1000 * (Ord(y[1]) - 1) + 100 * (Ord(y[2]) - 1) + 10 * (Ord(y[3]) - 1) + (Ord(y[4]) - 1)

\* the staleness rule, on the years of a match m
StaleAgainst(m, target) ==
    IF m.modification_year = None
    THEN YearNum(m.creation_year) < YearNum(target)
    ELSE YearNum(m.modification_year) < YearNum(target)

\* the starts of the lines, among the first ten, that the pattern accepts
Hits(content, company, starts) ==
    {s \in starts : /\ LineNumber(starts, s) <= 10
                    /\ \E line \in {LineFrom(content, s)} : Search(line, company).found}

\* the header line of a text with line starts starts, of which hits are the
\* starts of the accepted lines among the first ten: the first of them
HeaderAt(content, company, starts, hits) ==
    IF hits = {}
    THEN [readable |-> TRUE, lines |-> Cardinality(starts), line |-> 0, at |-> 0,
          m |-> [found |-> FALSE]]
    ELSE [readable |-> TRUE,
          lines |-> Cardinality(starts),
          line |-> LineNumber(starts, Min(hits)),
          at |-> Min(hits) - 1,
          m |-> CHOOSE m \in {Search(line, company) :
                                  line \in {LineFrom(content, Min(hits))}} : TRUE]

\* The header of a file f for the claims. [readable, lines, line, at, m]:
\* whether f can be read as text, how many lines it has, the number of the
\* header line (0: none), the offset at which that line starts and its
\* match. (starts and hits are bound as elements of one-element sets so
\* that they are computed once.)
Header(f, company) ==
    IF f.kind \notin {"text", "text_tail"}
    THEN [readable |-> FALSE, lines |-> 0, line |-> 0, at |-> 0, m |-> [found |-> FALSE]]
    ELSE CHOOSE hd \in
             UNION {{HeaderAt(f.content, company, starts, hits) :
                        hits \in {Hits(f.content, company, starts)}} :
                            starts \in {LineStarts(f.content)}} : TRUE

\* the header of the file that call k of _update_file met
HeaderOf(k) == {Header(calls[k].before, cmdline.company)}

\* whether the file's extension and the licence have a template
HasTemplate(file) ==
    /\ suffix(file) \in SUPPORTED_FILE_TYPES
    /\ <<cmdline.licence, suffix(file)>> \in templates

\* 'Copyright (C) <creation_year>-<target_year> <company>'
NewClause(m, target) ==
    <<"C", "o", "p", "y", "r", "i", "g", "h", "t", " ", "(", "C", ")", " ">> \o m.creation_year \o <<"-">> \o target \o <<SP>> \o m.company

\* the text with the clause of its header line, and nothing else, replaced
\* by 'Copyright (C) <creation_year>-<target_year> <company>'
ClauseRewritten(content, hd, target) ==
    SubSeq(content, 1, hd.at + hd.m.start - 1)
    \o NewClause(hd.m, target)
    \o From(content, hd.at + hd.m.stop)

\* the template with its placeholders filled in
Rendered(licence, company, target) ==
    TemplateHead \o target \o <<SP>> \o company \o TemplateTail(licence)

\* C1: a stale header in the first ten lines is rewritten to
\* 'Copyright (C) <creation_year>-<target_year> <company>' and everything
\* else of the file, before and after the clause, is as it was, with no
\* character left over or missing at the end.
C1_OnlyClauseRewritten ==
    \A k \in DOMAIN calls : \A hd \in HeaderOf(k) :
        (calls[k].before.kind = "text" /\ hd.line # 0 /\ StaleAgainst(hd.m, calls[k].year))
            => /\ calls[k].outcome = "year-updated"
               /\ calls[k].after.content = ClauseRewritten(calls[k].before.content, hd, calls[k].year)

\* C2: every file that decodes as text, without a header in its first ten
\* lines and with a template, ends as the filled-in template, a newline
\* and its original content, character for character, with outcome
\* header-inserted.
C2_HeaderInserted ==
    \A k \in DOMAIN calls : \A hd \in HeaderOf(k) :
        (calls[k].before.kind = "text" /\ hd.line = 0 /\ HasTemplate(calls[k].file))
            => /\ calls[k].outcome = "header-inserted"
               /\ calls[k].after.kind = "text"
               /\ calls[k].after.content =
                      Rendered(cmdline.licence, cmdline.company, calls[k].year)
                      \o <<NL>> \o calls[k].before.content

\* the same with the original content as a text-mode handle reads it
HeaderInsertedBeforeText ==
    \A k \in DOMAIN calls : \A hd \in HeaderOf(k) :
        (calls[k].before.kind = "text" /\ hd.line = 0 /\ HasTemplate(calls[k].file))
            => /\ calls[k].outcome = "header-inserted"
               /\ calls[k].after.content =
                      Rendered(cmdline.licence, cmdline.company, calls[k].year)
                      \o <<NL>> \o universal_newlines(calls[k].before.content)

\* C3, as claimed: a header in the first ten lines is rewritten if and only
\* if it is stale, and a header that is not stale leaves outcome
\* already-current and the file as it was.
C3_Original ==
    \A k \in DOMAIN calls : \A hd \in HeaderOf(k) :
        (hd.readable /\ hd.line # 0)
            => /\ calls[k].outcome = "year-updated" <=> StaleAgainst(hd.m, calls[k].year)
               /\ calls[k].after # calls[k].before <=> StaleAgainst(hd.m, calls[k].year)
               /\ ~StaleAgainst(hd.m, calls[k].year) => calls[k].outcome = "already-current"

\* C3, amended: the same for every file that decodes as text to its end.
C3_RewrittenIffStale ==
    \A k \in DOMAIN calls : \A hd \in HeaderOf(k) :
        (calls[k].before.kind = "text" /\ hd.line # 0)
            => /\ calls[k].outcome = "year-updated" <=> StaleAgainst(hd.m, calls[k].year)
               /\ calls[k].after # calls[k].before <=> StaleAgainst(hd.m, calls[k].year)
               /\ ~StaleAgainst(hd.m, calls[k].year) => calls[k].outcome = "already-current"

C3_Witness ==
    /\ \E k \in DOMAIN calls : \E hd \in HeaderOf(k) :
        hd.line # 0 /\ StaleAgainst(hd.m, calls[k].year) /\ calls[k].outcome = "year-updated"
    /\ \E k \in DOMAIN calls : \E hd \in HeaderOf(k) :
        /\ hd.line # 0 /\ calls[k].outcome = "already-current"
        /\ YearNum(hd.m.creation_year) > YearNum(calls[k].year)

\* C4: with a year given, whatever the year, once a file was year-updated
\* or header-inserted, each later call on it is already-current and leaves
\* it as it is.
C4_SecondPassCurrent ==
    ~cmdline.changed =>
        \A j, k \in DOMAIN calls :
            (/\ j < k
             /\ calls[j].file = calls[k].file
             /\ calls[j].outcome \in {"year-updated", "header-inserted"})
                => /\ calls[k].outcome = "already-current"
                   /\ calls[k].after = calls[k].before

\* the same for the years that the header pattern accepts, 1900 to 2099
SecondPassCurrentInPattern ==
    (~cmdline.changed /\ cmdline.year \in TargetYears) =>
        \A j, k \in DOMAIN calls :
            (/\ j < k
             /\ calls[j].file = calls[k].file
             /\ calls[j].outcome \in {"year-updated", "header-inserted"})
                => /\ calls[k].outcome = "already-current"
                   /\ calls[k].after = calls[k].before

\* C5: in a list of files of which none fails to open for another reason
\* than being missing, _update_file is called on every file of the list,
\* in order and once per occurrence, whatever the errors of the files
\* before it, and main returns 0.
C5_BatchContinues ==
    (/\ cmdline.files # << >>
     /\ \A n \in DOMAIN cmdline.files : fs[cmdline.files[n]].kind # "denied")
        => /\ pc # "crashed"
           /\ ignored = << >>
           /\ pc \in {"loop", "done"}
                 => /\ Len(calls) = idx - 1
                    /\ \A k \in DOMAIN calls : calls[k].file = cmdline.files[k]
           /\ pc = "done" => ret = 0 /\ Len(calls) = Len(cmdline.files)

C5_Witness ==
    /\ pc = "done"
    /\ ret = 0
    /\ \E i, j, k \in DOMAIN calls :
        /\ i < j /\ j < k
        /\ calls[i].outcome \in {"not-found", "binary"}
        /\ calls[j].outcome \in {"unsupported-extension", "missing-licence"}
        /\ calls[k].outcome \in {"header-inserted", "year-updated"}

\* C6: a file that fails to open for another reason than being missing
\* (permission denied, a directory) is a per-file error: the run goes on
\* and ends with exit code 0.
C6_IoErrorNotFatal ==
    \A k \in DOMAIN calls :
        calls[k].before.kind = "denied"
            => /\ pc # "crashed"
               /\ pc = "done" => ret = 0

\* C7: every call of _update_file finds the year given at the start in
\* the configuration, and in changed mode a call whose lookup in version
\* control fails uses that year.
C7_ConfiguredYear ==
    \A k \in DOMAIN calls :
        /\ calls[k].args_year = cmdline.year
        /\ (cmdline.changed /\ calls[k].git.status = "failed")
               => calls[k].year = cmdline.year

\* the files that expanding the lines of the exclusion file against the
\* directories yields: a file a line matches, and every file below a
\* directory a line matches
Excluded ==
    {p \in FilePaths :
        /\ is_file(fs, p)
        /\ ignore_file.exists
        /\ \E d \in DOMAIN cmdline.directories, l \in DOMAIN ignore_file.lines :
            /\ ignore_file.lines[l] # << >>
            /\ \E q \in Existing(fs) :
                /\ IsUnder(q, cmdline.directories[d])
                /\ fnmatch(q[Len(q)], strip(ignore_file.lines[l]))
                /\ q = p \/ (q \in DirPaths /\ IsUnder(p, q))}

\* the files that the walk of the directories yields
Enumerated ==
    {p \in FilePaths :
        /\ is_file(fs, p)
        /\ \E d \in DOMAIN cmdline.directories : IsUnder(p, cmdline.directories[d])}

\* C8: with directories given, _update_file is never called on an
\* excluded file, and when the run is over it was called on every other
\* file of the directories.
C8_Exclusion ==
    cmdline.directories # << >>
        => /\ \A k \in DOMAIN calls : calls[k].file \notin Excluded
           /\ pc \in {"done", "crashed"}
                 => \A p \in Enumerated \ Excluded :
                        \E k \in DOMAIN calls : calls[k].file = p

\* C9: a file with an unsupported extension and no header in its first ten
\* lines gets the unsupported-extension error, is left as it is, and the
\* call returns: the run goes on.
C9_UnsupportedExtension ==
    \A k \in DOMAIN calls : \A hd \in HeaderOf(k) :
        (hd.readable /\ hd.line = 0 /\ suffix(calls[k].file) \notin SUPPORTED_FILE_TYPES)
            => /\ calls[k].outcome = "unsupported-extension"
               /\ calls[k].after = calls[k].before
               /\ calls[k].raised = "none"
               /\ calls[k].ret = 1
               /\ k = Len(calls) => pc \in {"loop", "done"}

C9_Witness ==
    \E j, k \in DOMAIN calls :
        /\ j < k
        /\ calls[j].outcome = "unsupported-extension"
        /\ calls[j].before.content # << >>
        /\ calls[j].after = calls[j].before

\* the terminal states of the per-file state machine
Updated == "year-updated"
NoOp == "already-current"
TemplateInserted == "header-inserted"
TemplateError == {"unsupported-extension", "missing-licence"}
BinarySkipped == "binary"
NotFound == "not-found"

\* what C10 says of the scan: it reads the lines up to the first one that
\* matches, ten at most, and all there are when there are fewer; the
\* header is the first matching line of the first ten, and the file is
\* handled as matched exactly if there is one
ScanAsClaimed(c, hd) ==
    hd.readable
        => /\ c.nread <= 10
           /\ c.nread = IF hd.line # 0 THEN hd.line
                        ELSE IF hd.lines < 10 THEN hd.lines ELSE 10
           /\ c.found <=> hd.line # 0
           /\ hd.line # 0 => c.outcome \in {Updated, NoOp, BinarySkipped}
           /\ hd.line = 0 => c.outcome \in {TemplateInserted, BinarySkipped} \cup TemplateError
           /\ c.outcome = Updated
                 => /\ SubSeq(c.after.content, 1, hd.at) = SubSeq(c.before.content, 1, hd.at)
                    /\ \E at \in hd.at..Len(c.after.content) :
                           HasAt(c.after.content, at + 1, NewClause(hd.m, c.year))

C13_WritesOnlyWhenUpdated ==
    \A k \in DOMAIN calls :
        /\ calls[k].outcome \notin {"header-inserted", "year-updated"}
              => calls[k].after = calls[k].before
        /\ calls[k].outcome \in {"header-inserted", "year-updated"}
              => calls[k].before.kind = "text" /\ calls[k].raised = "none"

C13_Witness ==
    \E j, k \in DOMAIN calls :
        /\ calls[j].before.kind = "text_tail"
        /\ calls[j].nread > 0
        /\ calls[j].outcome = "binary" /\ calls[j].after = calls[j].before
        /\ calls[k].outcome = "header-inserted" /\ calls[k].after # calls[k].before

(***************************************************************************)
(* The version tool: PythonVersionCommand of pontos/version.  The manifest *)
(* is pyproject.toml; the code reaches it only through tomlkit, so a       *)
(* manifest is kept as the document tomlkit.parse gives and tomlkit.dumps  *)
(* takes: which tables and keys are there, and the value of                *)
(* [tool.poetry].version.  The version module file is kept as its text.    *)
(***************************************************************************)

\* what stands in a document for a key that is not set
Absent == None

DEV == <<"d", "e", "v">>
V10 == <<"1", ".", "0">>
V20 == <<"2", ".", "0">>
V10dev1 == V10 \o <<".">> \o DEV \o <<"1">>
\* spellings of a version that are not the normal form
vV10 == <<"v">> \o V10
V10dashdev1 == V10 \o <<"-">> \o DEV \o <<"1">>
V20dev == V20 \o DEV

\* the versions given to update_version
NewVersions == {V10, vV10, V10dev1, V10dashdev1, V20, V20dev}
\* the versions a manifest holds at the start
ManifestVersions == {V10, V20}
\* the versions a version module file holds at the start
ModuleVersions == {V10, V20, V10dev1, V10dashdev1}

\* where a development segment starts in a version
DevStart(v) == {k \in 1..Len(v) : HasAt(v, k, DEV)}

\* helper.safe_version: str(packaging.version.Version(version)), the normal
\* form: no leading v, and the development segment written .devN
safe_version(version) ==
    LET s == IF version # << >> /\ version[1] = "v" THEN Tail(version) ELSE version
    IN  IF DevStart(s) = {} THEN s
        ELSE LET k == Min(DevStart(s))
                 before == SubSeq(s, 1, k - 1)
                 release == IF before # << >> /\ before[Len(before)] \in {".", "-", "_"}
                            THEN SubSeq(before, 1, Len(before) - 1)
                            ELSE before
                 number == From(s, k + Len(DEV))
             IN  release \o <<".">> \o DEV
                     \o (IF number = << >> THEN <<"0">> ELSE number)

\* helper.check_develop: Version(version).dev is not None
check_develop(version) == DevStart(version) # {}

\* helper.versions_equal
versions_equal(new_version, old_version) ==
    safe_version(old_version) = safe_version(new_version)

\* A manifest as tomlkit sees it.  tool, pontos, version and module_file
\* say whether [tool], [tool.pontos], [tool.pontos.version] and its key
\* version-module-file are there; poetry whether [tool.poetry] is, and
\* poetry_version is the value of its key version.
Documents ==
    {d \in [tool : BOOLEAN, pontos : BOOLEAN, version : BOOLEAN,
            module_file : BOOLEAN, poetry : BOOLEAN,
            poetry_version : ManifestVersions \cup {Absent}] :
        /\ d.pontos => d.tool
        /\ d.version => d.pontos
        /\ d.module_file => d.version
        /\ d.poetry => d.tool
        /\ d.poetry_version # Absent => d.poetry}

EmptyDocument ==
    [tool |-> FALSE, pontos |-> FALSE, version |-> FALSE, module_file |-> FALSE,
     poetry |-> FALSE, poetry_version |-> Absent]

\* the project file and the version module file on disk
ProjectFile(doc) == [exists |-> TRUE, doc |-> doc]
NoProjectFile == [exists |-> FALSE, doc |-> EmptyDocument]
VersionFile(text) == [exists |-> TRUE, content |-> text]
NoVersionFile == [exists |-> FALSE, content |-> << >>]

TEMPLATE ==
    <<"#", " ", "p", "y", "l", "i", "n", "t", ":", " ", "d", "i", "s", "a",
      "b", "l", "e", "=", "i", "n", "v", "a", "l", "i", "d", "-", "n", "a",
      "m", "e", NL, NL, "#", " ", "T", "H", "I", "S", " ", "I", "S", " ",
      "A", "N", " ", "A", "U", "T", "O", "G", "E", "N", "E", "R", "A", "T",
      "E", "D", " ", "F", "I", "L", "E", ".", " ", "D", "O", " ", "N", "O",
      "T", " ", "T", "O", "U", "C", "H", "!", NL, NL, "_", "_", "v", "e",
      "r", "s", "i", "o", "n", "_", "_", " ", "=", " ", "\"", "{", "}",
      "\"", NL>>

\* TEMPLATE.format(new_version): the one replacement field of the template
\* gives way to the version
Format(template, new_version) ==
    CHOOSE text \in
        {SubSeq(template, 1, k - 1) \o new_version \o From(template, k + 2) :
            k \in {Min({j \in 1..Len(template) : HasAt(template, j, <<"{", "}">>)})}} :
        TRUE

\* The import of the version module: the statement that binds __version__,
\* at the start of a line, and the string it binds.
VERSION_ASSIGN ==
    <<"_", "_", "v", "e", "r", "s", "i", "o", "n", "_", "_", " ", "=", " ",
      "\"">>

Assignments(text) ==
    {k \in 1..Len(text) :
        /\ HasAt(text, k, VERSION_ASSIGN)
        /\ k = 1 \/ text[k - 1] = NL}

\* the string literal that starts at position from
StringFrom(text, from) ==
    LET close == Min({k \in from..(Len(text) + 1) : k > Len(text) \/ text[k] = "\""})
    IN  SubSeq(text, from, close - 1)

\* the value of the key, set or not, and never VersionError
get_version_from_pyproject_toml_any(pyproject_toml) ==
    [raised |-> "none", value |-> pyproject_toml.poetry_version]

\* self.pyproject_toml['tool']['poetry']['version'], or VersionError
get_version_from_pyproject_toml(pyproject_toml) ==
    IF /\ pyproject_toml.tool
       /\ pyproject_toml.poetry
       /\ pyproject_toml.poetry_version # Absent
    THEN [raised |-> "none", value |-> pyproject_toml.poetry_version]
    ELSE [raised |-> "VersionError", value |-> None]

Max(S) == CHOOSE x \in S : \A y \in S : x >= y

\* get_current_version: the import finds the module only when the file is
\* there and on the import path; the last binding of __version__ counts,
\* and a module without one has no such attribute.
get_current_version(version_file, on_path) ==
    IF ~(on_path /\ version_file.exists)
    THEN [raised |-> "VersionError", value |-> None]
    ELSE \* bound once: the positions of the bindings
         CHOOSE r \in
            {IF A = {} THEN [raised |-> "AttributeError", value |-> None]
             ELSE [raised |-> "none",
                   value |-> StringFrom(version_file.content,
                                        Max(A) + Len(VERSION_ASSIGN))] :
                A \in {Assignments(version_file.content)}} : TRUE

\* one operation on a file, as the calls record them
Touch(file) == [op |-> "touch", file |-> file, version |-> None]
Write(file, version) == [op |-> "write", file |-> file, version |-> version]

\* _update_pyproject_version: the manifest is read again from the disk
update_pyproject_version(project_file, new_version) ==
    ProjectFile([project_file.doc EXCEPT !.tool = TRUE, !.poetry = TRUE,
                                         !.poetry_version = safe_version(new_version)])

\* _update_version_file
update_version_file(new_version) ==
    VersionFile(Format(TEMPLATE, safe_version(new_version)))

\* the version module written before the manifest
write_files_module_first(project_file, new_version) ==
    [ops |-> <<Write("version", safe_version(new_version)),
               Write("project", safe_version(new_version))>>,
     project_file |-> update_pyproject_version(project_file, new_version),
     version_file |-> update_version_file(new_version)]

\* the last lines of update_version: the manifest, then the version module
write_files(project_file, new_version) ==
    [ops |-> <<Write("project", safe_version(new_version)),
               Write("version", safe_version(new_version))>>,
     project_file |-> update_pyproject_version(project_file, new_version),
     version_file |-> update_version_file(new_version)]

\* the version update_version sets: the normal form of the one given, with
\* .dev1 behind it when develop is asked for and it is no development
\* version yet
DEV1 == <<".">> \o DEV \o <<"1">>

target_version(new_version, develop) ==
    LET safe == safe_version(new_version)
    IN  IF develop /\ ~check_develop(safe) THEN safe \o DEV1 ELSE safe

\* update_version on a constructed command: what it raises, the message it
\* prints, the operations on files in order, and the two files after it.
update_version(self, new_version, develop, force) ==
    LET project_file == self.project_file
        version_file == self.version_file
        target == target_version(new_version, develop)
        pyproject_version == get_version_from_pyproject_toml(self.pyproject_toml)
        end(raised, message, ops, pf, vf) ==
            [raised |-> raised, message |-> message, ops |-> ops,
             project_file |-> pf, version_file |-> vf]
        update(first) ==
            LET w == write_files(project_file, target)
            IN  end("none", "Updated version", first \o w.ops,
                    w.project_file, w.version_file)
    IN  IF pyproject_version.raised # "none"
        THEN end(pyproject_version.raised, "", << >>, project_file, version_file)
        ELSE IF ~version_file.exists
        THEN update(<<Touch("version")>>)
        ELSE IF ~force
        THEN LET current == get_current_version(version_file, self.on_path)
             IN  IF current.raised # "none"
                 THEN end(current.raised, "", << >>, project_file, version_file)
                 ELSE IF versions_equal(target, current.value)
                 THEN end("none", "Version is already up-to-date.", << >>,
                          project_file, version_file)
                 ELSE update(<< >>)
        ELSE update(<< >>)

\* __init__ up to the call of the base class: what it raises, and the
\* document it keeps
init(project_file) ==
    IF ~project_file.exists
    THEN [raised |-> "VersionError", pyproject_toml |-> EmptyDocument]
    ELSE IF ~(project_file.doc.tool /\ project_file.doc.pontos
                 /\ project_file.doc.version)
    THEN [raised |-> "VersionError", pyproject_toml |-> project_file.doc]
    ELSE IF ~project_file.doc.module_file
    THEN [raised |-> "VersionError", pyproject_toml |-> project_file.doc]
    ELSE [raised |-> "none", pyproject_toml |-> project_file.doc]

\* the record of one call on the command
Call(op, new_version, develop, force, raised, value, message, ops, before, after) ==
    [op |-> op, new_version |-> new_version, develop |-> develop,
     force |-> force, raised |-> raised, value |-> value, message |-> message,
     ops |-> ops, before |-> before, after |-> after]

\* the two files of a state of the tool
Files(v) == [project_file |-> v.project_file, version_file |-> v.version_file]

NoCall == Call("none", None, FALSE, FALSE, "none", None, "", << >>,
               [project_file |-> NoProjectFile, version_file |-> NoVersionFile],
               [project_file |-> NoProjectFile, version_file |-> NoVersionFile])

\* the header tool while another tool runs: at its start, with no file
HeaderIdle ==
    Start(Args(Y2021, FALSE, "GPL-3.0-or-later", << >>, << >>, FALSE),
          [q \in FilePaths |-> MissingFile], AllTemplates, NoIgnoreFile)

\* Before the command is constructed: any manifest or none, and any
\* version module file or none; a version module file is empty (touched)
\* or has the text of TEMPLATE.
VersionInit ==
    /\ HeaderIdle
    /\ pull_request = None
    /\ \E pf \in {NoProjectFile} \cup {ProjectFile(d) : d \in Documents},
          vf \in {NoVersionFile, VersionFile(<< >>)}
                    \cup {VersionFile(Format(TEMPLATE, v)) : v \in ModuleVersions},
          on_path \in BOOLEAN :
        version_cmd = [state |-> "new", project_file |-> pf, version_file |-> vf,
                       on_path |-> on_path, pyproject_toml |-> EmptyDocument,
                       last |-> NoCall]

\* PythonVersionCommand(): the command is there unless __init__ raised
Construct ==
    /\ version_cmd.state = "new"
    /\ \E r \in {init(version_cmd.project_file)} :
        version_cmd' =
            [version_cmd EXCEPT
                !.state = IF r.raised = "none" THEN "ready" ELSE "failed",
                !.pyproject_toml = r.pyproject_toml,
                !.last = Call("init", None, FALSE, FALSE, r.raised, None, "", << >>,
                              Files(version_cmd), Files(version_cmd))]
    /\ UNCHANGED <<header_vars, pull_request>>

\* the command constructed, a call of _get_version_from_pyproject_toml
GetVersion ==
    /\ version_cmd.state = "ready"
    /\ \E r \in {get_version_from_pyproject_toml(version_cmd.pyproject_toml)} :
        version_cmd' =
            [version_cmd EXCEPT
                !.state = "done",
                !.last = Call("get", None, FALSE, FALSE, r.raised, r.value, "", << >>,
                              Files(version_cmd), Files(version_cmd))]
    /\ UNCHANGED <<header_vars, pull_request>>

\* the command constructed, the one call of update_version of a run
UpdateVersion ==
    /\ version_cmd.state = "ready"
    /\ \E new_version \in NewVersions, develop \in BOOLEAN, force \in BOOLEAN :
        \E r \in {update_version(version_cmd, new_version, develop, force)} :
            version_cmd' =
                [version_cmd EXCEPT
                    !.state = "done",
                    !.project_file = r.project_file,
                    !.version_file = r.version_file,
                    !.last = Call("update", new_version, develop, force, r.raised,
                                  None, r.message, r.ops, Files(version_cmd),
                                  [project_file |-> r.project_file,
                                   version_file |-> r.version_file])]
    /\ UNCHANGED <<header_vars, pull_request>>

VersionNext == Construct \/ GetVersion \/ UpdateVersion

VersionSpec == VersionInit /\ [][VersionNext]_vars

\* the version a version module file holds, as the import reads it
ModuleVersion(version_file) == get_current_version(version_file, TRUE)

\* the writes among the operations on files of a call
Writes(ops) == SelectSeq(ops, LAMBDA o : o.op = "write")

\* C11: after update_version has returned without raising, the manifest
\* and the version module file both hold the normal form of the new
\* version, with .dev1 behind it when develop is asked for and it is no
\* development version, whatever the two files held before.
C11_BothFilesHoldNewVersion ==
    \A c \in {version_cmd.last} :
        c.op = "update" /\ c.raised = "none" =>
            /\ c.after.project_file.doc.poetry_version
                   = target_version(c.new_version, c.develop)
            /\ ModuleVersion(c.after.version_file)
                   = [raised |-> "none",
                      value |-> target_version(c.new_version, c.develop)]

\* C12: reading the version from the manifest returns it or raises
\* VersionError and writes no file.  The construction raises VersionError
\* when the project file is missing, or has no [tool.pontos.version], or
\* that has no version-module-file, and not otherwise; after it,
\* _get_version_from_pyproject_toml returns [tool.poetry].version when the
\* key is set and raises VersionError when the table or the key is missing.
C12_ReadReturnsOrRaises ==
    \A c \in {version_cmd.last} : \A doc \in {c.before.project_file.doc} :
        /\ c.op \in {"init", "get"} =>
            /\ c.ops = << >>
            /\ c.after = c.before
            /\ Files(version_cmd) = c.before
            /\ c.raised \in {"none", "VersionError"}
        /\ c.op = "init" =>
            /\ c.raised = "VersionError" <=>
                  \/ ~c.before.project_file.exists
                  \/ ~(doc.tool /\ doc.pontos /\ doc.version)
                  \/ ~doc.module_file
            /\ version_cmd.state = (IF c.raised = "none" THEN "ready" ELSE "failed")
        /\ c.op = "get" =>
            IF doc.poetry /\ doc.poetry_version # Absent
            THEN c.raised = "none" /\ c.value = doc.poetry_version
            ELSE c.raised = "VersionError"

C12_Witness ==
    /\ version_cmd.last.op = "get"
    /\ version_cmd.last.raised = "VersionError"
    /\ version_cmd.last.before.project_file.doc.poetry
    /\ version_cmd.last.before.project_file.doc.module_file

\* C14: update_version without force, on a version module file that is
\* there and holds the version to set, writes neither file; with force, or
\* without a version module file, or when the versions differ, it writes
\* the manifest and then the version module file, both with the same
\* version; on a manifest without [tool.poetry].version it raises
\* VersionError and has neither created nor written a file.
C14_UpdateWrites ==
    \A c \in {version_cmd.last} :
      c.op = "update" =>
        \A target \in {target_version(c.new_version, c.develop)},
           current \in {get_current_version(c.before.version_file, version_cmd.on_path)} :
            IF c.before.project_file.doc.poetry_version = Absent
            THEN /\ c.raised = "VersionError"
                 /\ c.ops = << >>
                 /\ c.after = c.before
            ELSE /\ (/\ ~c.force
                     /\ c.before.version_file.exists
                     /\ current.raised = "none"
                     /\ versions_equal(target, current.value))
                        => /\ c.raised = "none"
                           /\ c.ops = << >>
                           /\ c.after = c.before
                 /\ (\/ c.force
                     \/ ~c.before.version_file.exists
                     \/ current.raised = "none" /\ ~versions_equal(target, current.value))
                        => /\ c.raised = "none"
                           /\ \E v \in {c.after.project_file.doc.poetry_version} :
                               /\ versions_equal(v, target)
                               /\ Writes(c.ops)
                                      = <<Write("project", v), Write("version", v)>>
                               /\ ModuleVersion(c.after.version_file)
                                      = [raised |-> "none", value |-> v]

C14_Witness ==
    /\ version_cmd.last.op = "update"
    /\ version_cmd.last.force
    /\ version_cmd.last.develop
    /\ version_cmd.last.before.version_file.exists
    /\ ModuleVersion(version_cmd.last.before.version_file).raised = "none"
    /\ versions_equal(target_version(version_cmd.last.new_version, TRUE),
                      ModuleVersion(version_cmd.last.before.version_file).value)
    /\ Len(version_cmd.last.ops) > 1

(***************************************************************************)
(* The pull-request helper: create_pull_request of pontos/github/cmds.py.  *)
(* The GitHub REST client is a black box that answers a request or raises  *)
(* httpx.HTTPError; the remote repository is the set of its branches and   *)
(* whether the token is accepted.                                          *)
(***************************************************************************)

Branches == {"main", "devel", "topic"}

\* what a request can come to: the answer of the remote, or httpx.HTTPError
HTTPError == "HTTPError"

\* GitHubRESTApi.branch_exists: true for a branch the remote has and the
\* token may see
branch_exists(remote, branch) ==
    {IF remote.authorised /\ branch \in remote.branches THEN "true" ELSE "false",
     HTTPError}

\* GitHubRESTApi.create_pull_request: returns, or raises HTTPError
create_pull_request_api(remote) == {"created", HTTPError}

\* what the run leaves behind, in order: a request with its outcome, or a
\* line on the terminal
Request(name, branch, outcome) ==
    [event |-> name, arg |-> branch, outcome |-> outcome]
Ok(message) == [event |-> "ok", arg |-> message, outcome |-> ""]
Error(message) == [event |-> "error", arg |-> message, outcome |-> ""]

\* except httpx.HTTPError as e: error(str(e)); sys.exit(1)
http_error == [pc |-> "exited", exit |-> 1, out |-> <<Error("HTTPError")>>]

\* a head check that goes on to the target check whatever the answer
check_head_goes_on(outcome) ==
    IF outcome = HTTPError THEN http_error
    ELSE [pc |-> "target", exit |-> -1, out |-> <<Ok("Head branch is existing.")>>]

\* the head branch check and what follows it
check_head(outcome) ==
    IF outcome = HTTPError THEN http_error
    ELSE IF outcome # "true"
    THEN [pc |-> "exited", exit |-> 1,
          out |-> <<Error("Head branch is not existing or authorisation failed.")>>]
    ELSE [pc |-> "target", exit |-> -1, out |-> <<Ok("Head branch is existing.")>>]

\* the target branch check and what follows it
check_target(outcome) ==
    IF outcome = HTTPError THEN http_error
    ELSE IF outcome # "true"
    THEN [pc |-> "exited", exit |-> 1,
          out |-> <<Error("Target branch is not existing or authorisation failed.")>>]
    ELSE [pc |-> "create", exit |-> -1, out |-> <<Ok("Target branch exists.")>>]

\* the call that creates the pull request and what follows it
create(outcome) ==
    IF outcome = HTTPError THEN http_error
    ELSE [pc |-> "created", exit |-> -1, out |-> << >>]

\* create_pull_request is called: any remote, any two branches
PullRequestInit ==
    /\ HeaderIdle
    /\ version_cmd = None
    /\ \E branches \in SUBSET Branches, authorised \in BOOLEAN,
          head \in Branches, target \in Branches :
        pull_request = [remote |-> [branches |-> branches, authorised |-> authorised],
                        args |-> [head |-> head, target |-> target],
                        pc |-> "head", exit |-> -1, log |-> << >>]

\* one step of create_pull_request: a request, and the lines up to the
\* next request or to the end
Step(name, branch, outcome, then) ==
    pull_request' = [pull_request EXCEPT
                        !.pc = then.pc,
                        !.exit = then.exit,
                        !.log = @ \o <<Request(name, branch, outcome)>> \o then.out]

CheckHead ==
    /\ pull_request.pc = "head"
    /\ \E outcome \in branch_exists(pull_request.remote, pull_request.args.head) :
        Step("branch_exists", pull_request.args.head, outcome, check_head(outcome))
    /\ UNCHANGED <<header_vars, version_cmd>>

CheckTarget ==
    /\ pull_request.pc = "target"
    /\ \E outcome \in branch_exists(pull_request.remote, pull_request.args.target) :
        Step("branch_exists", pull_request.args.target, outcome, check_target(outcome))
    /\ UNCHANGED <<header_vars, version_cmd>>

CreatePullRequest ==
    /\ pull_request.pc = "create"
    /\ \E outcome \in create_pull_request_api(pull_request.remote) :
        Step("create_pull_request", pull_request.args.head, outcome, create(outcome))
    /\ UNCHANGED <<header_vars, version_cmd>>

\* ok("Pull Request created.") and the return
ReportCreated ==
    /\ pull_request.pc = "created"
    /\ pull_request' = [pull_request EXCEPT
                            !.pc = "returned",
                            !.log = Append(@, Ok("Pull Request created."))]
    /\ UNCHANGED <<header_vars, version_cmd>>

PullRequestNext == CheckHead \/ CheckTarget \/ CreatePullRequest \/ ReportCreated

PullRequestSpec == PullRequestInit /\ [][PullRequestNext]_vars

\* the places of the log where a request of the name was made
Requests(log, name) == {k \in DOMAIN log : log[k].event = name}

\* a check that did not answer true, or a request that raised
Failed(log) ==
    \E k \in DOMAIN log :
        \/ log[k].event = "branch_exists" /\ log[k].outcome # "true"
        \/ log[k].outcome = HTTPError

\* C15: the create request is made only after the head check and then the
\* target check have both answered true, in that order; after a failed
\* head check there is no target check; after a failed check or an HTTP
\* error the process has exited with 1 and 'Pull Request created.' is not
\* reported; and the create request is made at most once.
C15_ChecksBeforeCreate ==
    \A log \in {pull_request.log} :
    \A checks \in {Requests(log, "branch_exists")} :
    \A creates \in {Requests(log, "create_pull_request")} :
        /\ \A k \in creates :
            \E i, j \in checks :
                /\ i < j /\ j < k
                /\ checks = {i, j}
                /\ log[i] = Request("branch_exists", pull_request.args.head, "true")
                /\ log[j] = Request("branch_exists", pull_request.args.target, "true")
        /\ (\E k \in checks : k = 1 /\ log[k].outcome # "true") => Cardinality(checks) = 1
        /\ Failed(log) =>
            /\ pull_request.pc = "exited"
            /\ pull_request.exit = 1
            /\ Ok("Pull Request created.") \notin {log[k] : k \in DOMAIN log}
        /\ Cardinality(creates) <= 1

C15_Witness ==
    /\ pull_request.pc = "returned"
    /\ pull_request.args.head # pull_request.args.target
    /\ Requests(pull_request.log, "create_pull_request") # {}
    /\ pull_request.log[Len(pull_request.log)] = Ok("Pull Request created.")

=============================================================================
